---- MODULE Spec2Model ----
(***************************************************************************)
(* The transfer workflow of the finance tracker: the TransferSheet         *)
(* component (features/transactions/components/transfer-sheet.tsx) and the *)
(* useTransfer session store (features/transactions/hooks/use-transfer.ts).*)
(*                                                                         *)
(* Amounts travel as in the code: the form holds a string (a sequence of   *)
(* characters), parseFloat turns it into a decimal number (a signed        *)
(* mantissa and a count of fraction digits), convertAmountToMiliunits      *)
(* scales it to integer miliunits.                                         *)
(*                                                                         *)
(* The React component is taken at its latest render whenever a user event *)
(* fires.  An asynchronous onSubmit keeps the values its closure captured  *)
(* when it was called (remaining, categoryQuery.data, fromAccountId).      *)
(* A network call is one step: the collaborator's effect and the           *)
(* continuation of onSubmit after the await happen together.               *)
(***************************************************************************)
EXTENDS Integers, Sequences, FiniteSets, TLC

VARIABLES
    isOpen, fromAccountId,   \* the useTransfer store
    form,                    \* the values of the react-hook-form form
    balanceData,             \* balanceQuery.data by query key (the account)
    categoryData,            \* categoryQuery.data
    serverCategories,        \* the categories the API holds
    serverTx,                \* the transactions the API holds, written in this run
    pending,                 \* the calls of onSubmit that wait at an await
    submits,                 \* how many calls of onSubmit passed validation
    last                     \* how a call of onSubmit ended, if the last step
                             \* ended one (NoneEnded otherwise)

vars == <<isOpen, fromAccountId, form, balanceData, categoryData,
          serverCategories, serverTx, pending, submits, last>>

(* ---------------------------------------------------------------------- *)
(* Bounds and the small input sets                                         *)
(* ---------------------------------------------------------------------- *)

\* how many calls of onSubmit of one run pass its validation
MaxSubmits == 2

Undefined == "undefined"
Null == "null"

Accounts == {"acc_1", "acc_2"}

\* what onOpen is called with: no preselection, or the account of the page
Preselections == {Undefined, "acc_1"}

\* new Date() and one other day the DatePicker can select
Today == "today"
Dates == {Today, "2024-01-01"}

\* the amount strings the user types while the run goes on: "" and "0,001"
AmountStrings ==
    { <<>>,
      <<"0", ",", "0", "0", "1">> }

\* the amount strings a form can hold when it is submitted:
\* "", "x", "0", "-0.001", "0,001", "0.002", ",001", "0.0004", "0,002,5"
InputAmountStrings ==
    { <<>>,
      <<"x">>,
      <<"0">>,
      <<"-", "0", ".", "0", "0", "1">>,
      <<"0", ",", "0", "0", "1">>,
      <<"0", ".", "0", "0", "2">>,
      <<",", "0", "0", "1">>,
      <<"0", ".", "0", "0", "0", "4">>,
      <<"0", ",", "0", "0", "2", ",", "5">> }

\* the balance (miliunits) each account has before any transfer of the run
InitialRemaining == [a \in Accounts |-> IF a = "acc_1" THEN 1 ELSE -1]

\* the remaining amounts a fetched summary can carry
InputRemaining == (-2)..2

transferCategoryName == "Transferências"

\* a category of the user that is not the transfer category
OtherCategory == [id |-> 0, name |-> "Mercado"]

\* accountsQuery.data: the user's accounts
AccountsData ==
    { [id |-> "acc_1", name |-> "Carteira"], [id |-> "acc_2", name |-> "Banco"] }

(* ---------------------------------------------------------------------- *)
(* Session store (use-transfer.ts)                                         *)
(* ---------------------------------------------------------------------- *)

StoreInit == [isOpen |-> FALSE, fromAccountId |-> Undefined]

\* onOpen that keeps an earlier preselection
StoreOnOpenKeep(id) ==
    [isOpen |-> TRUE,
     fromAccountId |-> IF fromAccountId # Undefined THEN fromAccountId ELSE id]

\* onOpen: set({ isOpen: true, fromAccountId })
StoreOnOpen(id) == [isOpen |-> TRUE, fromAccountId |-> id]

\* onClose that only closes: set({ isOpen: false })
StoreOnCloseKeep == [isOpen |-> FALSE, fromAccountId |-> fromAccountId]

\* onClose: set({ isOpen: false, fromAccountId: undefined })
StoreOnClose == [isOpen |-> FALSE, fromAccountId |-> Undefined]

(* ---------------------------------------------------------------------- *)
(* Form                                                                    *)
(* ---------------------------------------------------------------------- *)

\* the object given to useForm's defaultValues and to every form.reset
DefaultValues(preselected) ==
    [date |-> Today,
     fromAccountId |-> preselected,
     toAccountId |-> Undefined,
     amount |-> <<>>,
     notes |-> Undefined]

\* zodResolver(formSchema): handleSubmit calls onSubmit only with string ids
SchemaAccepts(values) ==
    /\ values.fromAccountId # Undefined
    /\ values.toAccountId # Undefined

(* ---------------------------------------------------------------------- *)
(* Amount parsing                                                          *)
(* ---------------------------------------------------------------------- *)

Digits == {"0", "1", "2", "3", "4", "5", "6", "7", "8", "9"}

DigitVal(c) ==
    CASE c = "0" -> 0 [] c = "1" -> 1 [] c = "2" -> 2 [] c = "3" -> 3
      [] c = "4" -> 4 [] c = "5" -> 5 [] c = "6" -> 6 [] c = "7" -> 7
      [] c = "8" -> 8 [] c = "9" -> 9

RECURSIVE Pow10(_)
Pow10(k) == IF k = 0 THEN 1 ELSE 10 * Pow10(k - 1)

\* String.prototype.replace(",", "."): only the first comma is replaced
ReplaceComma(s) ==
    LET commas == {i \in 1..Len(s) : s[i] = ","}
    IN  IF commas = {} THEN s
        ELSE LET first == CHOOSE i \in commas : \A j \in commas : i <= j
             IN  [i \in 1..Len(s) |-> IF i = first THEN "." ELSE s[i]]

\* the number of consecutive digits of t from position i on
RECURSIVE DigitRun(_, _)
DigitRun(t, i) ==
    IF i <= Len(t) /\ t[i] \in Digits THEN 1 + DigitRun(t, i + 1) ELSE 0

\* the value of the n digits of t from position i on
RECURSIVE DigitsValue(_, _, _)
DigitsValue(t, i, n) ==
    IF n = 0 THEN 0
    ELSE 10 * DigitsValue(t, i, n - 1) + DigitVal(t[i + n - 1])

NaN == [nan |-> TRUE, num |-> 0, frac |-> 0]

\* parseFloat: an optional sign, digits, an optional point and digits; the
\* longest such prefix is the number (num / 10^frac), no digit at all is NaN.
\* (Exponents, blanks and "Infinity" are not among the inputs.)
parseFloat(t) ==
    LET start == IF Len(t) >= 1 /\ t[1] \in {"-", "+"} THEN 2 ELSE 1
        sign == IF Len(t) >= 1 /\ t[1] = "-" THEN -1 ELSE 1
        ni == DigitRun(t, start)
        hasPoint == start + ni <= Len(t) /\ t[start + ni] = "."
        nf == IF hasPoint THEN DigitRun(t, start + ni + 1) ELSE 0
    IN  IF ni + nf = 0 THEN NaN
        ELSE [nan |-> FALSE,
              num |-> sign * (DigitsValue(t, start, ni) * Pow10(nf)
                              + DigitsValue(t, start + ni + 1, nf)),
              frac |-> nf]

\* Math.round(amount * 1000): round to nearest, a half goes up
convertAmountToMiliunits(f) ==
    (2 * 1000 * f.num + Pow10(f.frac)) \div (2 * Pow10(f.frac))

Abs(x) == IF x < 0 THEN -x ELSE x

(* ---------------------------------------------------------------------- *)
(* Queries of the component                                                *)
(* ---------------------------------------------------------------------- *)

\* const selectedFrom = watchedFrom ?? fromAccountId
SelectedFrom(formValues, preselected) ==
    IF formValues.fromAccountId # Undefined THEN formValues.fromAccountId
    ELSE preselected

\* enabled: isOpen && !!selectedFrom
BalanceEnabled(open, selected) == open /\ selected # Undefined

\* balanceQuery.data of a key that has no data (yet), and a fetched summary
NoData == [loaded |-> FALSE, remainingAmount |-> 0]
Summary(n) == [loaded |-> TRUE, remainingAmount |-> n]

\* remaining with a default that lets every amount pass while there is no data
RemainingUnlimitedDefault(data, selected) ==
    IF selected = Undefined \/ ~data[selected].loaded THEN 1000 * 1000
    ELSE data[selected].remainingAmount

\* const remaining = balanceQuery.data?.remainingAmount ?? 0
Remaining(data, selected) ==
    IF selected = Undefined \/ ~data[selected].loaded THEN 0
    ELSE data[selected].remainingAmount

\* the sum of the account's transaction amounts (GET summary, remainingAmount)
RECURSIVE SumAmounts(_)
SumAmounts(txs) ==
    IF txs = {} THEN 0
    ELSE LET t == CHOOSE x \in txs : TRUE
         IN  t.amount + SumAmounts(txs \ {t})

ServerRemaining(txs, a) ==
    InitialRemaining[a] + SumAmounts({t \in txs : t.accountId = a})

\* the undefined that find and res?.data give when there is no category
NoCategory == [id |-> -1, name |-> Undefined]

\* (categoryQuery.data ?? []).find((c) => c.name === transferCategoryName)
FindTransferCategory(data) ==
    LET hits == {i \in 1..Len(data) : data[i].name = transferCategoryName}
    IN  IF hits = {} THEN NoCategory
        ELSE data[CHOOSE i \in hits : \A j \in hits : i <= j]

(* ---------------------------------------------------------------------- *)
(* onSubmit                                                                *)
(* ---------------------------------------------------------------------- *)

\* if (isNaN(amountFloat) || amountFloat <= 0) return
InvalidAmount(amountFloat) == amountFloat.nan \/ amountFloat.num <= 0

\* the same-account check made only when the balance is loaded
SameAccountIfFunds(values) ==
    /\ values.fromAccountId = values.toAccountId
    /\ balanceData[values.fromAccountId].loaded

\* if (values.fromAccountId === values.toAccountId)
SameAccount(values) == values.fromAccountId = values.toAccountId

\* the funds check without Math.abs around remaining
InsufficientFundsSigned(amountMili, remaining) == Abs(amountMili) > remaining

\* the funds check never failing
InsufficientFundsNever(amountMili, remaining) == FALSE

\* if (Math.abs(amountMili) > Math.abs(remaining))
InsufficientFunds(amountMili, remaining) == Abs(amountMili) > Abs(remaining)

ToastSameAccount == "Selecione contas diferentes para transferência"
ToastInsufficient == "Saldo insuficiente na conta de origem"
ToastCategory == "Erro ao criar categoria de transferências"
\* the onError notification of the mutation hooks
ToastMutationError == "mutation error"
NoToast == "none"

\* accountsQuery.data.find((a) => a.id === id)?.name ?? id
AccountNameOrId(id) ==
    LET hits == {a \in AccountsData : a.id = id}
    IN  IF hits = {} THEN id ELSE (CHOOSE a \in hits : TRUE).name

\* Payload with the inflow leg forgotten
PayloadOneLeg(values, category, amountMili) ==
    << [date |-> values.date,
        accountId |-> values.fromAccountId,
        categoryId |-> category.id,
        payee |-> <<"Transferência para", AccountNameOrId(values.toAccountId)>>,
        amount |-> -Abs(amountMili),
        notes |-> IF values.notes = Undefined THEN Null ELSE values.notes] >>

\* Payload with the sign of the outflow leg lost
PayloadUnsigned(values, category, amountMili) ==
    << [date |-> values.date,
        accountId |-> values.fromAccountId,
        categoryId |-> category.id,
        payee |-> <<"Transferência para", AccountNameOrId(values.toAccountId)>>,
        amount |-> Abs(amountMili),
        notes |-> IF values.notes = Undefined THEN Null ELSE values.notes],
       [date |-> values.date,
        accountId |-> values.toAccountId,
        categoryId |-> category.id,
        payee |-> <<"Transferência de", AccountNameOrId(values.fromAccountId)>>,
        amount |-> Abs(amountMili),
        notes |-> IF values.notes = Undefined THEN Null ELSE values.notes] >>

\* Payload with the inflow leg dated today instead of the chosen date
PayloadInflowToday(values, category, amountMili) ==
    << [date |-> values.date,
        accountId |-> values.fromAccountId,
        categoryId |-> category.id,
        payee |-> <<"Transferência para", AccountNameOrId(values.toAccountId)>>,
        amount |-> -Abs(amountMili),
        notes |-> IF values.notes = Undefined THEN Null ELSE values.notes],
       [date |-> Today,
        accountId |-> values.toAccountId,
        categoryId |-> category.id,
        payee |-> <<"Transferência de", AccountNameOrId(values.fromAccountId)>>,
        amount |-> Abs(amountMili),
        notes |-> IF values.notes = Undefined THEN Null ELSE values.notes] >>

\* the two transactions: negative for from, positive for to
Payload(values, category, amountMili) ==
    << [date |-> values.date,
        accountId |-> values.fromAccountId,
        categoryId |-> category.id,
        payee |-> <<"Transferência para", AccountNameOrId(values.toAccountId)>>,
        amount |-> -Abs(amountMili),
        notes |-> IF values.notes = Undefined THEN Null ELSE values.notes],
       [date |-> values.date,
        accountId |-> values.toAccountId,
        categoryId |-> category.id,
        payee |-> <<"Transferência de", AccountNameOrId(values.fromAccountId)>>,
        amount |-> Abs(amountMili),
        notes |-> IF values.notes = Undefined THEN Null ELSE values.notes] >>


\* a call of onSubmit that has run to an end: a return, an exception out of an
\* await (threw) or the last line (completed), and the notification it raised
Ended(at, result, toast) ==
    [pc |-> "done", at |-> at, result |-> result, toast |-> toast]

NoneEnded == Ended("none", "none", NoToast)

\* AfterCategory without the check of line 140
AfterCategoryUnchecked(sub, category, at) ==
    [sub EXCEPT !.pc = "bulk",
                !.category = category,
                !.payload = Payload(sub.values, category, sub.amountMili)]

\* lines 140-172: the category is known or not; build the payload and call
\* bulkCreate.mutateAsync
AfterCategory(sub, category, at) ==
    IF category = NoCategory THEN Ended(at, "returned", ToastCategory)
    ELSE [sub EXCEPT !.pc = "bulk",
                     !.category = category,
                     !.payload = Payload(sub.values, category, sub.amountMili)]

\* onSubmit resolving the category before it validates: with no category in
\* the list it calls createCategory first
OnSubmitSyncResolveFirst(values, remaining, categories, preselected) ==
    LET amountFloat == parseFloat(ReplaceComma(values.amount))
        amountMili == convertAmountToMiliunits(amountFloat)
        found == FindTransferCategory(categories)
        sub == [pc |-> "create",
                values |-> values,
                amountMili |-> amountMili,
                preselected |-> preselected,
                category |-> NoCategory,
                payload |-> <<>>]
    IN  IF found = NoCategory THEN sub
        ELSE IF InvalidAmount(amountFloat)
        THEN Ended("validation", "returned", NoToast)
        ELSE IF SameAccount(values)
        THEN Ended("validation", "returned", ToastSameAccount)
        ELSE IF InsufficientFunds(amountMili, remaining)
        THEN Ended("validation", "returned", ToastInsufficient)
        ELSE AfterCategory(sub, found, "category")

\* lines 110-138: from the entry of onSubmit to its first await or its return
OnSubmitSync(values, remaining, categories, preselected) ==
    LET amountFloat == parseFloat(ReplaceComma(values.amount))
        amountMili == convertAmountToMiliunits(amountFloat)
        found == FindTransferCategory(categories)
        sub == [pc |-> "create",
                values |-> values,
                amountMili |-> amountMili,
                preselected |-> preselected,
                category |-> NoCategory,
                payload |-> <<>>]
    IN  IF InvalidAmount(amountFloat)
        THEN Ended("validation", "returned", NoToast)
        ELSE IF SameAccount(values)
        THEN Ended("validation", "returned", ToastSameAccount)
        ELSE IF InsufficientFunds(amountMili, remaining)
        THEN Ended("validation", "returned", ToastInsufficient)
        ELSE IF found = NoCategory THEN sub
        ELSE AfterCategory(sub, found, "category")

(* ---------------------------------------------------------------------- *)
(* The state machine                                                       *)
(* ---------------------------------------------------------------------- *)

Init ==
    /\ isOpen = StoreInit.isOpen
    /\ fromAccountId = StoreInit.fromAccountId
    /\ form = DefaultValues(StoreInit.fromAccountId)
    /\ balanceData = [a \in Accounts |-> NoData]
    /\ categoryData = <<OtherCategory>>
    /\ serverCategories = <<OtherCategory>>
    /\ serverTx = {}
    /\ pending = <<>>
    /\ submits = 0
    /\ last = NoneEnded

\* the effect on [isOpen, fromAccountId]: reset the form when the sheet is
\* open and one of the two changed
FormAfterEffect(oldStore, newStore, oldForm) ==
    IF newStore.isOpen /\ newStore # oldStore
    THEN DefaultValues(newStore.fromAccountId)
    ELSE oldForm

CurrentStore == [isOpen |-> isOpen, fromAccountId |-> fromAccountId]

\* s without its p-th element
Remove(s, p) == [i \in 1..(Len(s) - 1) |-> IF i < p THEN s[i] ELSE s[i + 1]]

\* a step of the p-th waiting call of onSubmit (p = Len(pending) + 1: a new
\* call): sub is what the call has become
Step(p, sub) ==
    IF sub.pc = "done"
    THEN /\ pending' = IF p <= Len(pending) THEN Remove(pending, p) ELSE pending
         /\ last' = sub
    ELSE /\ pending' = IF p <= Len(pending) THEN [pending EXCEPT ![p] = sub]
                       ELSE Append(pending, sub)
         /\ last' = NoneEnded

\* someone calls useTransfer().onOpen(id)
onOpen(id) ==
    /\ isOpen' = StoreOnOpen(id).isOpen
    /\ fromAccountId' = StoreOnOpen(id).fromAccountId
    /\ form' = FormAfterEffect(CurrentStore, StoreOnOpen(id), form)
    /\ last' = NoneEnded
    /\ UNCHANGED <<balanceData, categoryData, serverCategories, serverTx,
                   pending, submits>>

\* onClose that also abandons the calls of onSubmit in flight
onCloseAborting ==
    /\ isOpen' = StoreOnClose.isOpen
    /\ fromAccountId' = StoreOnClose.fromAccountId
    /\ form' = FormAfterEffect(CurrentStore, StoreOnClose, form)
    /\ last' = NoneEnded
    /\ pending' = <<>>
    /\ UNCHANGED <<balanceData, categoryData, serverCategories, serverTx,
                   submits>>

\* the sheet is dismissed (onOpenChange={onClose}), or someone calls onClose()
onClose ==
    /\ isOpen' = StoreOnClose.isOpen
    /\ fromAccountId' = StoreOnClose.fromAccountId
    /\ form' = FormAfterEffect(CurrentStore, StoreOnClose, form)
    /\ last' = NoneEnded
    /\ UNCHANGED <<balanceData, categoryData, serverCategories, serverTx,
                   pending, submits>>

\* the user edits a field of the open sheet
SetFrom(a) ==
    /\ isOpen
    /\ form' = [form EXCEPT !.fromAccountId = a]
    /\ last' = NoneEnded
    /\ UNCHANGED <<isOpen, fromAccountId, balanceData, categoryData,
                   serverCategories, serverTx, pending, submits>>

SetTo(a) ==
    /\ isOpen
    /\ form' = [form EXCEPT !.toAccountId = a]
    /\ last' = NoneEnded
    /\ UNCHANGED <<isOpen, fromAccountId, balanceData, categoryData,
                   serverCategories, serverTx, pending, submits>>

SetAmount(s) ==
    /\ isOpen
    /\ form' = [form EXCEPT !.amount = s]
    /\ last' = NoneEnded
    /\ UNCHANGED <<isOpen, fromAccountId, balanceData, categoryData,
                   serverCategories, serverTx, pending, submits>>

SetDate(d) ==
    /\ isOpen
    /\ form' = [form EXCEPT !.date = d]
    /\ last' = NoneEnded
    /\ UNCHANGED <<isOpen, fromAccountId, balanceData, categoryData,
                   serverCategories, serverTx, pending, submits>>

\* balanceQuery fetches the summary of the selected account
BalanceFetch ==
    LET selected == SelectedFrom(form, fromAccountId)
    IN  /\ BalanceEnabled(isOpen, selected)
        /\ balanceData' =
              [balanceData EXCEPT ![selected] = Summary(ServerRemaining(serverTx, selected))]
        /\ last' = NoneEnded
        /\ UNCHANGED <<isOpen, fromAccountId, form, categoryData,
                       serverCategories, serverTx, pending, submits>>

\* categoryQuery (re)fetches the user's categories
CategoriesFetch ==
    /\ categoryData' = serverCategories
    /\ last' = NoneEnded
    /\ UNCHANGED <<isOpen, fromAccountId, form, balanceData,
                   serverCategories, serverTx, pending, submits>>

\* the form is submitted: handleSubmit(onSubmit), up to the first await
Submit ==
    /\ isOpen
    /\ SchemaAccepts(form)
    /\ submits < MaxSubmits
    /\ LET sub == OnSubmitSync(form,
                               Remaining(balanceData, SelectedFrom(form, fromAccountId)),
                               categoryData, fromAccountId)
       IN  /\ Step(Len(pending) + 1, sub)
           /\ submits' = IF sub.pc = "done" /\ sub.at = "validation" THEN submits
                         ELSE submits + 1
    /\ UNCHANGED <<isOpen, fromAccountId, form, balanceData, categoryData,
                   serverCategories, serverTx>>

\* POST categories: the new row
NewCategory(categories) == [id |-> Len(categories), name |-> transferCategoryName]

\* how createCategory.mutateAsync can settle: with the new category, with a
\* response that carries no data (the row written or not), or with an error
CreateOutcomes == {"ok", "nodata", "nodataCreated", "error"}

\* createCategory.mutateAsync settles and onSubmit goes on to its next await
CreateCategoryDone(p, outcome) ==
    /\ p \in 1..Len(pending)
    /\ pending[p].pc = "create"
    /\ serverCategories' =
          IF outcome \in {"ok", "nodataCreated"}
          THEN Append(serverCategories, NewCategory(serverCategories))
          ELSE serverCategories
    /\ Step(p, CASE outcome = "ok" ->
                      AfterCategory(pending[p], NewCategory(serverCategories), "create")
                 [] outcome \in {"nodata", "nodataCreated"} ->
                      AfterCategory(pending[p], NoCategory, "create")
                 [] outcome = "error" ->
                      Ended("create", "threw", ToastMutationError))
    /\ UNCHANGED <<isOpen, fromAccountId, form, balanceData, categoryData,
                   serverTx, submits>>

\* how bulkCreate.mutateAsync can settle: every row written, none written and
\* an error, or some rows written and an error
BulkOutcomes == {"ok", "error", "partial"}

\* the rows a call that settles with outcome leaves of a payload: all of them,
\* none, or the rows inserted before the failure
WrittenLegs(outcome, payload) ==
    CASE outcome = "ok" -> DOMAIN payload
      [] outcome = "error" -> {}
      [] outcome = "partial" -> {i \in DOMAIN payload : i < Len(payload)}

\* the rows of a bulk-create call as the storage keeps them
Rows(txs, payload, legs) ==
    { [transfer |-> Cardinality({t.transfer : t \in txs}) + 1, leg |-> i,
       accountId |-> payload[i].accountId,
       categoryId |-> payload[i].categoryId,
       amount |-> payload[i].amount] : i \in legs }

\* the reset without the preselected account
CompletedFormEmpty(sub) == DefaultValues(Undefined)

\* lines 175-180: form.reset({...})
CompletedForm(sub) == DefaultValues(sub.preselected)

\* BulkCreateDone with a retry: a call that fails is issued again
BulkCreateDoneRetrying(p, outcome) ==
    /\ p \in 1..Len(pending)
    /\ pending[p].pc = "bulk"
    /\ serverTx' = serverTx \cup Rows(serverTx, pending[p].payload,
                                      WrittenLegs(outcome, pending[p].payload))
    /\ IF outcome = "ok"
       THEN /\ form' = FormAfterEffect(CurrentStore, StoreOnClose,
                                       CompletedForm(pending[p]))
            /\ isOpen' = StoreOnClose.isOpen
            /\ fromAccountId' = StoreOnClose.fromAccountId
            /\ Step(p, Ended("bulk", "completed", NoToast))
       ELSE /\ UNCHANGED <<form, isOpen, fromAccountId>>
            /\ Step(p, pending[p])
    /\ UNCHANGED <<balanceData, categoryData, serverCategories, submits>>

\* bulkCreate.mutateAsync settles and onSubmit runs to its end
BulkCreateDone(p, outcome) ==
    /\ p \in 1..Len(pending)
    /\ pending[p].pc = "bulk"
    /\ serverTx' = serverTx \cup Rows(serverTx, pending[p].payload,
                                      WrittenLegs(outcome, pending[p].payload))
    /\ IF outcome = "ok"
       THEN /\ form' = FormAfterEffect(CurrentStore, StoreOnClose,
                                       CompletedForm(pending[p]))
            /\ isOpen' = StoreOnClose.isOpen
            /\ fromAccountId' = StoreOnClose.fromAccountId
            /\ Step(p, Ended("bulk", "completed", NoToast))
       ELSE /\ UNCHANGED <<form, isOpen, fromAccountId>>
            /\ Step(p, Ended("bulk", "threw", ToastMutationError))
    /\ UNCHANGED <<balanceData, categoryData, serverCategories, submits>>

Next ==
    \/ \E id \in Preselections : onOpen(id)
    \/ onClose
    \/ \E a \in Accounts : SetFrom(a)
    \/ \E a \in Accounts : SetTo(a)
    \/ \E s \in AmountStrings : SetAmount(s)
    \/ \E d \in Dates : SetDate(d)
    \/ BalanceFetch
    \/ CategoriesFetch
    \/ Submit
    \/ \E p \in 1..MaxSubmits : \E o \in CreateOutcomes : CreateCategoryDone(p, o)
    \/ \E p \in 1..MaxSubmits : \E o \in BulkOutcomes : BulkCreateDone(p, o)

Spec == Init /\ [][Next]_vars

(* ---------------------------------------------------------------------- *)
(* Sequential submissions: the form is submitted again only when no call   *)
(* of onSubmit is waiting, and POST categories writes a category only when *)
(* it returns it                                                           *)
(* ---------------------------------------------------------------------- *)

CreateOutcomesSeq == {"ok", "nodata", "error"}

SubmitSeq == pending = <<>> /\ Submit

NextSeq ==
    \/ \E id \in Preselections : onOpen(id)
    \/ onClose
    \/ \E a \in Accounts : SetFrom(a)
    \/ \E a \in Accounts : SetTo(a)
    \/ \E s \in AmountStrings : SetAmount(s)
    \/ \E d \in Dates : SetDate(d)
    \/ BalanceFetch
    \/ CategoriesFetch
    \/ SubmitSeq
    \/ \E p \in 1..MaxSubmits : \E o \in CreateOutcomesSeq : CreateCategoryDone(p, o)
    \/ \E p \in 1..MaxSubmits : \E o \in BulkOutcomes : BulkCreateDone(p, o)

SpecSeq == Init /\ [][NextSeq]_vars

(* ---------------------------------------------------------------------- *)
(* onSubmit over its inputs: the sheet is open with a filled form, a       *)
(* balance that is fetched or not and a category list; the form is         *)
(* submitted (once, twice in a row, again after a failure) and the session *)
(* is closed and opened again while the calls of onSubmit go on            *)
(* ---------------------------------------------------------------------- *)

\* a transfer category the user already has
ExistingTransferCategory(id) == [id |-> id, name |-> transferCategoryName]

InputCategories ==
    { <<OtherCategory>>,
      <<OtherCategory, ExistingTransferCategory(1)>>,
      <<ExistingTransferCategory(1), OtherCategory, ExistingTransferCategory(2)>> }

InitInputs ==
    /\ isOpen = TRUE
    /\ fromAccountId \in Preselections
    /\ form \in [date : Dates, fromAccountId : Accounts, toAccountId : Accounts,
                  amount : InputAmountStrings, notes : {Undefined}]
    /\ \E d \in {NoData} \cup {Summary(n) : n \in InputRemaining} :
          balanceData = [a \in Accounts |->
                           IF a = form.fromAccountId THEN d ELSE NoData]
    /\ categoryData \in InputCategories
    /\ serverCategories = categoryData
    /\ serverTx = {}
    /\ pending = <<>>
    /\ submits = 0
    /\ last = NoneEnded

NextInputs ==
    \/ \E id \in Preselections : onOpen(id)
    \/ onClose
    \/ Submit
    \/ \E p \in 1..MaxSubmits : \E o \in CreateOutcomes : CreateCategoryDone(p, o)
    \/ \E p \in 1..MaxSubmits : \E o \in BulkOutcomes : BulkCreateDone(p, o)

SpecInputs == InitInputs /\ [][NextInputs]_vars

(* ---------------------------------------------------------------------- *)
(* Properties                                                              *)
(* ---------------------------------------------------------------------- *)

\* the miliunits of the amount string of a form, as onSubmit computes them
AmountMiliOf(values) == convertAmountToMiliunits(parseFloat(ReplaceComma(values.amount)))

\* the calls of onSubmit that wait for bulkCreate.mutateAsync
AtBulk == {p \in 1..Len(pending) : pending[p].pc = "bulk"}

\* C1: in every bulk-create call onSubmit issues, the leg on the source
\* account is -|amountMili|, the leg on the target account is +|amountMili|,
\* and the two amounts sum to zero.
C1_AdditiveInverses ==
    \A p \in AtBulk :
        LET sub == pending[p]
            amountMili == AmountMiliOf(sub.values)
        IN  /\ Len(sub.payload) = 2
            /\ sub.payload[1].accountId = sub.values.fromAccountId
            /\ sub.payload[1].amount = -Abs(amountMili)
            /\ sub.payload[2].accountId = sub.values.toAccountId
            /\ sub.payload[2].amount = Abs(amountMili)
            /\ sub.payload[1].amount + sub.payload[2].amount = 0

\* a bulk-create call for 2 miliunits waits
C1_Witness ==
    \E p \in AtBulk :
        /\ AmountMiliOf(pending[p].values) = 2
        /\ pending[p].payload[1].amount = -2
        /\ pending[p].payload[2].amount = 2


\* the transfers of which exactly one leg is stored
Lone(txs) ==
    {id \in {t.transfer : t \in txs} : Cardinality({t \in txs : t.transfer = id}) = 1}

\* C2 as claimed: no reachable state has exactly one leg of a transfer
\* persisted, also when the storage partially commits a bulk-create call.
C2_BothOrNeither == Lone(serverTx) = {}

\* C2 as amended: a bulk-create call that succeeds stores both legs
\* together, one that fails whole stores none; a leg comes to be stored alone
\* only in a step in which the storage partially commits the call, and that
\* call ends onSubmit with an exception (nothing is rolled back).
C2_LoneLegOnlyByPartialCommit ==
    [][/\ \A p \in 1..Len(pending) :
             /\ BulkCreateDone(p, "ok") =>
                   /\ Cardinality(serverTx' \ serverTx) = 2
                   /\ Lone(serverTx') = Lone(serverTx)
             /\ BulkCreateDone(p, "error") => serverTx' = serverTx
       /\ Lone(serverTx') # Lone(serverTx) =>
             /\ \E p \in 1..Len(pending) : BulkCreateDone(p, "partial")
             /\ last'.at = "bulk" /\ last'.result = "threw"]_vars

\* a partially committed call has just ended with an exception and one leg
\* of its transfer is stored
C2_Witness ==
    /\ Lone(serverTx) # {}
    /\ last.at = "bulk" /\ last.result = "threw"

\* the remaining amount the component renders with
RemainingNow == Remaining(balanceData, SelectedFrom(form, fromAccountId))

\* the form holds a positive amount and two distinct accounts
PositiveDistinct ==
    /\ ~InvalidAmount(parseFloat(ReplaceComma(form.amount)))
    /\ form.fromAccountId # form.toAccountId

\* a step that issues no call and writes nothing
NoCallNoWrite ==
    /\ pending' = pending
    /\ serverCategories' = serverCategories
    /\ serverTx' = serverTx

\* C3: with a positive amount and distinct accounts, onSubmit rejects (no
\* category-create, no bulk-create) exactly when abs(amountMili) >
\* abs(remaining) and goes on to a call otherwise, also when the two are
\* equal and when remaining is negative.
C3_FundsRule ==
    [][Submit /\ PositiveDistinct =>
          IF Abs(AmountMiliOf(form)) > Abs(RemainingNow)
          THEN /\ NoCallNoWrite
               /\ last'.result = "returned" /\ last'.toast = ToastInsufficient
          ELSE /\ Len(pending') = Len(pending) + 1
               /\ pending'[Len(pending')].pc \in {"create", "bulk"}
               /\ last' = NoneEnded]_vars

\* a submission of 1 miliunit was accepted against a remaining amount of -1
C3_Witness ==
    \E p \in 1..Len(pending) :
        /\ AmountMiliOf(pending[p].values) = 1
        /\ balanceData[pending[p].values.fromAccountId] = Summary(-1)

\* C4: a submission whose source account is its target account is rejected
\* with no category-create and no bulk-create call, whatever the amount and
\* the remaining amount.
C4_SameAccountRejected ==
    [][Submit /\ form.fromAccountId = form.toAccountId =>
          /\ NoCallNoWrite
          /\ last'.result = "returned"]_vars

\* a same-account submission was rejected although its amount is positive
\* and within the remaining amount
C4_Witness ==
    /\ last.toast = ToastSameAccount
    /\ form.fromAccountId = form.toAccountId
    /\ AmountMiliOf(form) > 0
    /\ Abs(AmountMiliOf(form)) <= Abs(RemainingNow)

\* the form holds values that validation rejects
ValidationRejects ==
    \/ InvalidAmount(parseFloat(ReplaceComma(form.amount)))
    \/ form.fromAccountId = form.toAccountId
    \/ Abs(AmountMiliOf(form)) > Abs(RemainingNow)

\* C5: a submission that validation rejects leaves all state unchanged: no
\* category is created, no transaction written, no call issued, the form is
\* not reset and the store keeps isOpen and fromAccountId.
C5_RejectionFrame ==
    [][Submit /\ ValidationRejects =>
          /\ NoCallNoWrite
          /\ UNCHANGED <<form, isOpen, fromAccountId, balanceData, categoryData>>
          /\ last'.at = "validation"]_vars

\* a submission of more than the remaining amount was rejected and the filled
\* form and the open session are as they were
C5_Witness ==
    /\ last.toast = ToastInsufficient
    /\ isOpen
    /\ form.toAccountId # Undefined /\ form.amount # <<>>
    /\ pending = <<>> /\ serverTx = {}


\* the transfer categories the API holds
TransferCategories(categories) ==
    {i \in 1..Len(categories) : categories[i].name = transferCategoryName}

\* C6 as claimed: when submissions are sequential and the user starts with
\* no transfer category, the first valid submission creates one and every
\* later one reuses it, so at most one transfer category ever exists.
C6_AtMostOneTransferCategory ==
    Cardinality(TransferCategories(serverCategories)) <= 1


\* the calls among pend that wait for bulkCreate.mutateAsync
BulkWaiting(pend) == {p \in 1..Len(pend) : pend[p].pc = "bulk"}

\* C7: when the category-create call returns no usable category, onSubmit
\* ends there: no bulk-create call is issued, no transaction is written, the
\* form is not reset and the session is not closed.
C7_NoCategoryAborts ==
    [][\A p \in 1..Len(pending) : \A o \in {"nodata", "nodataCreated"} :
          CreateCategoryDone(p, o) =>
             /\ Len(pending') = Len(pending) - 1
             /\ Cardinality(BulkWaiting(pending')) = Cardinality(BulkWaiting(pending))
             /\ serverTx' = serverTx
             /\ UNCHANGED <<form, isOpen, fromAccountId>>
             /\ last'.result = "returned" /\ last'.toast = ToastCategory]_vars

\* a call has just ended for want of a category, the filled form and the open
\* session are as they were and nothing is written
C7_Witness ==
    /\ last.at = "create" /\ last.toast = ToastCategory
    /\ isOpen
    /\ form.amount # <<>> /\ form.toAccountId # Undefined
    /\ serverTx = {}

\* a step of onSubmit that is not the end of a successful bulk-create call
StepBeforeSuccess ==
    \/ Submit
    \/ \E p \in 1..Len(pending) : \E o \in CreateOutcomes : CreateCategoryDone(p, o)
    \/ \E p \in 1..Len(pending) : \E o \in BulkOutcomes \ {"ok"} : BulkCreateDone(p, o)

\* C8: when the bulk-create call succeeds the form is reset to its default
\* (today, the source account preselected when the form was submitted, no
\* target, no amount) and the store ends with isOpen = false and no
\* fromAccountId; no step of onSubmit before that success resets the form or
\* closes the session.
C8_ResetThenClose ==
    [][/\ \A p \in 1..Len(pending) :
             BulkCreateDone(p, "ok") =>
                /\ form' = [date |-> Today, fromAccountId |-> pending[p].preselected,
                            toAccountId |-> Undefined, amount |-> <<>>,
                            notes |-> Undefined]
                /\ isOpen' = FALSE
                /\ fromAccountId' = Undefined
                /\ last'.result = "completed"
       /\ StepBeforeSuccess => UNCHANGED <<form, isOpen, fromAccountId>>]_vars

\* a transfer submitted with acc_1 preselected has just completed: its legs
\* are stored, the form is the default with acc_1 and the session is closed
C8_Witness ==
    /\ last.result = "completed"
    /\ serverTx # {}
    /\ form = [date |-> Today, fromAccountId |-> "acc_1", toAccountId |-> Undefined,
               amount |-> <<>>, notes |-> Undefined]
    /\ ~isOpen /\ fromAccountId = Undefined

\* C9: onOpen(id) sets isOpen = true and stores id (undefined when none is
\* given) whatever the store held; onClose() sets isOpen = false and clears
\* the preselection whatever the store held; so each is idempotent.
C9_StoreOperations ==
    [][/\ \A id \in Preselections :
             onOpen(id) => isOpen' = TRUE /\ fromAccountId' = id
       /\ onClose => isOpen' = FALSE /\ fromAccountId' = Undefined]_vars

\* the session is open without preselection after a transfer of this run
\* completed and closed it: onOpen(undefined) has acted on a used store
C9_Witness ==
    /\ isOpen /\ fromAccountId = Undefined
    /\ serverTx # {}

\* C10 as claimed: every call of onSubmit that ends without a successful
\* bulk-create has raised a notification.
C10_EveryFailureNotified ==
    last.result \in {"returned", "threw"} => last.toast # NoToast

\* the actual sum of the transaction amounts of the source account of a
\* bulk-create call covers the amount of the call
CoveredByActualSum(sub, txs) ==
    Abs(sub.payload[1].amount) <= Abs(ServerRemaining(txs, sub.values.fromAccountId))

\* C11 as claimed: every bulk-create call, at the moment onSubmit issues it
\* (at the submission when the category is known, at the end of the
\* category-create call otherwise), moves no more than the absolute value of
\* the actual sum of the transaction amounts of its source account.
C11_FreshRemaining ==
    [][/\ Submit /\ Len(pending') > Len(pending)
                 /\ pending'[Len(pending')].pc = "bulk" =>
             CoveredByActualSum(pending'[Len(pending')], serverTx)
       /\ \A p \in 1..Len(pending) :
             CreateCategoryDone(p, "ok") =>
                CoveredByActualSum(pending'[p], serverTx)]_vars

\* C12: every bulk-create call carries exactly two items, the first on the
\* source account and the second on the target account of the submitted
\* form, both with the date of the form, both with the id of the transfer
\* category the call resolved (the first one of the loaded list when it has
\* one, the created one otherwise) and both with the same notes.
C12_TwoLegsSameDateCategoryNotes ==
    \A p \in AtBulk :
        LET sub == pending[p]
            found == FindTransferCategory(categoryData)
        IN  /\ Len(sub.payload) = 2
            /\ sub.payload[1].accountId = sub.values.fromAccountId
            /\ sub.payload[2].accountId = sub.values.toAccountId
            /\ sub.payload[1].date = sub.values.date
            /\ sub.payload[2].date = sub.payload[1].date
            /\ sub.category.name = transferCategoryName
            /\ found # NoCategory => sub.category = found
            /\ sub.payload[1].categoryId = sub.category.id
            /\ sub.payload[2].categoryId = sub.payload[1].categoryId
            /\ sub.payload[2].notes = sub.payload[1].notes

\* a bulk-create call waits whose two items carry a date other than today
\* and the id of a transfer category that was created for it
C12_Witness ==
    \E p \in AtBulk :
        /\ pending[p].payload[2].date # Today
        /\ FindTransferCategory(categoryData) = NoCategory
        /\ pending[p].payload[2].categoryId = pending[p].category.id

\* C13 as claimed: the validator runs only after the category resolution has
\* succeeded, so whenever a call of onSubmit has ended at validation the user
\* has a transfer category (found, or created by the resolution before it).
C13_ResolvedBeforeValidated ==
    last.at = "validation" => TransferCategories(serverCategories) # {}

\* C13 as amended: on submit the validation runs first; a submission it
\* rejects ends there and never reaches the category resolution (no
\* category-create call, no category written); a submission it accepts goes
\* on to the resolution: with a transfer category in the loaded list the
\* bulk-create call is issued with it, with none the category-create call is
\* issued, and when that call returns the category the bulk-create call
\* follows with no second validation.
C13_ValidatedBeforeResolved ==
    [][/\ Submit =>
             IF ValidationRejects
             THEN /\ pending' = pending
                  /\ serverCategories' = serverCategories
                  /\ last'.at = "validation"
             ELSE LET found == FindTransferCategory(categoryData)
                      new == pending'[Len(pending')]
                  IN  /\ Len(pending') = Len(pending) + 1
                      /\ found = NoCategory =>
                            new.pc = "create" /\ new.category = NoCategory
                      /\ found # NoCategory =>
                            new.pc = "bulk" /\ new.category = found
       /\ \A p \in 1..Len(pending) :
             CreateCategoryDone(p, "ok") =>
                /\ pending'[p].pc = "bulk"
                /\ pending'[p].category = NewCategory(serverCategories)]_vars

\* a submission has passed validation and waits for the category-create call
\* while the user has no transfer category yet
C13_Witness ==
    /\ TransferCategories(serverCategories) = {}
    /\ last = NoneEnded
    /\ \E p \in 1..Len(pending) :
          /\ pending[p].pc = "create"
          /\ pending[p].values.fromAccountId # pending[p].values.toAccountId
          /\ pending[p].amountMili > 0

\* the stored rows of transfer id
RowsOf(txs, id) == {t \in txs : t.transfer = id}

\* C14: whatever number of transfer categories concurrent submissions have
\* created, every stored transaction refers to a transfer category that
\* exists and the two legs of every stored pair sum to zero. (That a state
\* with two transfer categories is reached is C14_Witness.)
C14_DuplicateCategoriesKeepRowsSound ==
    /\ \A t \in serverTx :
          \E i \in TransferCategories(serverCategories) :
              serverCategories[i].id = t.categoryId
    /\ \A id \in {t.transfer : t \in serverTx} \ Lone(serverTx) :
          SumAmounts(RowsOf(serverTx, id)) = 0

\* two submissions that both found no transfer category in the loaded list
\* have each created one and written their transfer with it: two transfer
\* categories exist and two pairs are stored under different categories
C14_Witness ==
    /\ FindTransferCategory(categoryData) = NoCategory
    /\ Cardinality(TransferCategories(serverCategories)) = 2
    /\ \E t1, t2 \in serverTx :
          /\ t1.transfer # t2.transfer
          /\ t1.categoryId # t2.categoryId
          /\ t1.amount # 0
    /\ Lone(serverTx) = {}
    /\ Cardinality(serverTx) = 4

\* C15: onClose leaves every call of onSubmit in flight as it is; while the
\* session is closed each waiting call can still settle, a category-create
\* call that returns the category is followed by the bulk-create call, and a
\* bulk-create call that succeeds stores both legs and runs the completion
\* (reset, onClose) on the closed session, which ends with isOpen = false and
\* no preselection.
C15_CloseDoesNotAbort ==
    [][/\ onClose => pending' = pending
       /\ ~isOpen =>
             \A p \in 1..Len(pending) :
                 /\ pending[p].pc = "create" => ENABLED CreateCategoryDone(p, "ok")
                 /\ pending[p].pc = "bulk" => ENABLED BulkCreateDone(p, "ok")
                 /\ CreateCategoryDone(p, "ok") => pending'[p].pc = "bulk"
                 /\ BulkCreateDone(p, "ok") =>
                       /\ Cardinality(serverTx' \ serverTx) = 2
                       /\ Lone(serverTx') = Lone(serverTx)
                       /\ form' = DefaultValues(pending[p].preselected)
                       /\ isOpen' = FALSE /\ fromAccountId' = Undefined
                       /\ last'.result = "completed"]_vars

\* the session was closed while a bulk-create call was in flight: the call
\* still waits and nothing is written yet
C15_Witness ==
    /\ ~isOpen
    /\ serverTx = {}
    /\ last = NoneEnded
    /\ \E p \in AtBulk : pending[p].amountMili > 0

\* a call of onSubmit has just ended with a failed bulk-create call
BulkJustFailed == last.at = "bulk" /\ last.result = "threw"

\* C16: a bulk-create call that fails ends its call of onSubmit there: the
\* form is not reset, the store keeps isOpen and the preselection, the failed
\* call is not issued again (one waiting call less, the other calls as they
\* were, no new submission counted); a submission of the form right after
\* the failure is validated and goes on to its calls like any other.
C16_FailureIsRecoverable ==
    [][/\ \A p \in 1..Len(pending) : \A o \in {"error", "partial"} :
             BulkCreateDone(p, o) =>
                /\ UNCHANGED <<form, isOpen, fromAccountId, submits>>
                /\ pending' = Remove(pending, p)
                /\ Cardinality(BulkWaiting(pending')) =
                      Cardinality(BulkWaiting(pending)) - 1
                /\ BulkJustFailed'
       /\ BulkJustFailed /\ Submit =>
             IF ValidationRejects
             THEN NoCallNoWrite /\ last'.at = "validation"
             ELSE /\ Len(pending') = Len(pending) + 1
                  /\ pending'[Len(pending')].pc =
                        IF FindTransferCategory(categoryData) = NoCategory
                        THEN "create" ELSE "bulk"
                  /\ submits' = submits + 1]_vars

\* the only bulk-create call has just failed whole: the session is open with
\* acc_1 preselected, the form is still filled and valid for the schema and
\* no call waits
C16_Witness ==
    /\ BulkJustFailed
    /\ isOpen /\ fromAccountId = "acc_1"
    /\ form.amount # <<>> /\ form.toAccountId # Undefined
    /\ SchemaAccepts(form)
    /\ pending = <<>> /\ serverTx = {} /\ submits = 1

\* balanceQuery has no data for the selected source account: none is
\* selected, or the summary of the selected one has not been fetched
BalanceNotFetched ==
    LET selected == SelectedFrom(form, fromAccountId)
    IN  selected = Undefined \/ ~balanceData[selected].loaded

\* C17: while the balance of the selected source account has not been
\* fetched, the remaining amount the component holds is 0, and a submission
\* of a positive number of miliunits is rejected by validation: no call is
\* issued and nothing is written, with the insufficient-funds notification
\* when source and target differ (with the same-account one otherwise, which
\* is checked first).
C17_NoBalanceNoTransfer ==
    [][/\ BalanceNotFetched => RemainingNow = 0
       /\ Submit /\ BalanceNotFetched /\ AmountMiliOf(form) > 0 =>
             /\ NoCallNoWrite
             /\ last'.at = "validation" /\ last'.result = "returned"
             /\ last'.toast = IF form.fromAccountId = form.toAccountId
                              THEN ToastSameAccount ELSE ToastInsufficient]_vars

\* a submission of 2 miliunits between two accounts has just been rejected
\* for insufficient funds while the balance of its source was not fetched
C17_Witness ==
    /\ last.toast = ToastInsufficient
    /\ BalanceNotFetched
    /\ AmountMiliOf(form) = 2
    /\ form.fromAccountId # form.toAccountId
    /\ serverTx = {}

\* C18 as claimed: every bulk-create call moves an amount that is not zero:
\* its outflow leg is strictly negative and its inflow leg strictly positive,
\* and so is every stored row, whatever amount string was accepted.
C18_NonZeroLegs ==
    /\ \A p \in AtBulk :
          /\ pending[p].payload[1].amount < 0
          /\ pending[p].payload[2].amount > 0
    /\ \A t \in serverTx : t.amount # 0

\* C19: in every state, reached by whatever sequence of onOpen, onClose and
\* completions of calls of onSubmit, a closed session has no preselected
\* account: isOpen = false implies fromAccountId is undefined.
C19_ClosedHasNoPreselection ==
    ~isOpen => fromAccountId = Undefined

\* the session is closed and holds no preselection while a call of onSubmit
\* that was submitted with acc_1 preselected is still in flight
C19_Witness ==
    /\ ~isOpen /\ fromAccountId = Undefined
    /\ \E p \in 1..Len(pending) : pending[p].preselected = "acc_1"

\* C20 as claimed: when a bulk-create call succeeds while the session is
\* open with a preselection other than the one its call of onSubmit was
\* submitted with (so onOpen has been called since that submission), the
\* completion leaves the session open with the preselection it has.
C20_ReopenedSessionUndisturbed ==
    [][\A p \in 1..Len(pending) :
          BulkCreateDone(p, "ok") /\ isOpen
                                  /\ fromAccountId # pending[p].preselected =>
             isOpen' /\ fromAccountId' = fromAccountId]_vars

====
